---- MODULE Spec2Model ----
(***************************************************************************)
(* Model of lib/dialects/abstract/connection-manager.js: the connection   *)
(* manager (construction, initPools, getConnection with one-time version  *)
(* detection, releaseConnection, close), the replication router built in  *)
(* initPools, and the pool engine the manager creates through             *)
(* Pooling.createPool.  The pool engine itself is the generic-pool        *)
(* package, whose code is not part of the source tree: its behaviour is   *)
(* taken from the specification's section 4.1 (definitions named          *)
(* Engine...).                                                             *)
(***************************************************************************)
EXTENDS Integers, Sequences, FiniteSets, TLC

\* ------------------------------------------------------------- bounds
NCallers == 3
NReplCallers == 2
MaxPoolMax == 2
MaxPoolMin == 1
MaxPriority == 1
NReadTargets == 2
MaxReads == 3
MaxDetect == 2
MaxDetectPoolMax == 1
MaxDetectPoolMin == 0
MaxReplPoolMax == 1

Callers == 1..NCallers
Priorities == 0..MaxPriority
PoolNames == {"single", "read", "write"}

\* ------------------------------------------------------------- values
VersionUnknown == "0"
DefaultVersion == "default"
VersionReplies == {"v1", "bad"}
QueryTypes == {"SELECT", "INSERT"}
UseMasterValues == {"undefined", "false", "true"}

NoHandle == [id |-> 0, tag |-> "none", target |-> 0, origin |-> "none"]
IdleCall == [st |-> "idle", await |-> 0, h |-> NoHandle]
NoEvent == [op |-> "none", c |-> 0, type |-> "none", um |-> "none", pool |-> "none",
            h |-> NoHandle, err |-> "none", verdict |-> "none", gone |-> 0]

VARIABLES
  config,          \* this.config: replication (and its read targets), pool.max,
                   \* pool.min; whether the dialect has a validate
  hook,            \* process 'exit' listener registered
  closed,          \* this.getConnection replaced by the rejecting function
  inited,          \* this.pool is set
  pool,            \* pool engine state of each sub pool
  reads,           \* the round-robin counter of initPools
  dbVersion,       \* sequelize.options.databaseVersion
  versionPromise,  \* this.versionPromise: 0 (null) or a detection's number
  det,             \* the detections started so far
  call,            \* each caller's getConnection call
  event,           \* what the latest step did at the manager's interface: a
                   \* getConnection the closed manager rejected, this.pool.acquire
                   \* (the caller, the router's arguments and the pool reached), a
                   \* releaseConnection (its handle, whether the pool rejected it),
                   \* a create that rejected (the pool, the caller it was for),
                   \* an idle timeout (the pool, the handle it closed);
                   \* for an acquire also what the dialect's validate said of the
                   \* idle handle the caller was given, and how many idle handles
                   \* the pool discarded
  open,            \* ids of the physical connections that are open
  made,            \* per read target: connections the read pool's create opened
  tried            \* per read target: calls of the read pool's create

vars == <<config, hook, closed, inited, pool, reads, dbVersion, versionPromise,
          det, call, event, open, made, tried>>

\* ------------------------------------------------------- pool engine
EmptyPool == [idle |-> <<>>, out |-> {}, creating |-> <<>>, queue |-> <<>>,
              draining |-> FALSE, cbs |-> {}]

Pools == IF config.replication THEN {"read", "write"} ELSE {"single"}

Count(P) == Len(P.idle) + Cardinality(P.out) + Len(P.creating)

RECURSIVE InsertByPriority(_, _)
InsertByPriority(q, e) ==
  IF q = <<>> THEN <<e>>
  ELSE IF Head(q).pri <= e.pri THEN <<Head(q)>> \o InsertByPriority(Tail(q), e)
  ELSE <<e>> \o q

RemoveAt(s, i) == SubSeq(s, 1, i - 1) \o SubSeq(s, i + 1, Len(s))

SeqRange(s) == {s[i] : i \in 1..Len(s)}

FreshId == CHOOSE i \in 1..(Cardinality(open) + 1) :
             i \notin open /\ \A j \in 1..(i - 1) : j \in open

\* The result of an engine operation: the pool after it, whether it called the
\* factory's create, whether it rejected, and the handles it destroyed.
Result(P, started, err, gone) ==
  [P |-> P, started |-> started, err |-> err, gone |-> gone]

EngineStart(P, c, tgt) ==
  [P EXCEPT !.creating = Append(@, [for |-> c, target |-> tgt])]

\* A freed slot goes to the head of the queue: a creation is begun for it.
EngineDispense(P, mx, tgt, gone) ==
  IF P.queue # <<>> /\ Count(P) < mx /\ ~P.draining
  THEN Result([EngineStart(P, Head(P.queue).c, tgt) EXCEPT !.queue = Tail(@)],
              TRUE, FALSE, gone)
  ELSE Result(P, FALSE, FALSE, gone)

\* The handle goes to the head of the queue, or to the idle set.
EngineGive(P, h) ==
  IF P.queue # <<>>
  THEN [P EXCEPT !.out = @ \cup {[h |-> h, by |-> Head(P.queue).c]},
                 !.queue = Tail(@)]
  ELSE [P EXCEPT !.idle = Append(@, h)]

\* acquire(priority): valid[i] is the validation of the i-th idle handle; opt is
\* the priority the caller of getConnection asked for.
EngineAcquire(P, c, pri, opt, valid, mx, tgt) ==
  LET good == {i \in 1..Len(P.idle) : valid[i]}
      n    == IF good = {} THEN Len(P.idle)
              ELSE (CHOOSE i \in good : \A j \in good : i <= j) - 1
      gone == {P.idle[i] : i \in 1..n}
      rest == SubSeq(P.idle, n + 1, Len(P.idle))
      P1   == [P EXCEPT !.idle = rest]
  IN  IF P.draining THEN Result(P, FALSE, TRUE, {})
      ELSE IF rest # <<>>
        THEN Result([P1 EXCEPT !.idle = Tail(rest),
                               !.out = @ \cup {[h |-> Head(rest), by |-> c]}],
                    FALSE, FALSE, gone)
      ELSE IF Count(P1) < mx
        THEN Result(EngineStart(P1, c, tgt), TRUE, FALSE, gone)
      ELSE Result([P1 EXCEPT !.queue = InsertByPriority(@, [c |-> c, pri |-> pri,
                                                              opt |-> opt])],
                  FALSE, FALSE, gone)

Loaned(P, h) == \E l \in P.out : l.h = h

\* release(handle)
EngineRelease(P, h) ==
  IF ~Loaned(P, h) THEN Result(P, FALSE, TRUE, {})
  ELSE Result(EngineGive([P EXCEPT !.out = {l \in @ : l.h # h}], h),
              FALSE, FALSE, {})

\* destroy(handle)
EngineDestroy(P, h, mx, tgt) ==
  IF ~Loaned(P, h) THEN Result(P, FALSE, TRUE, {})
  ELSE EngineDispense([P EXCEPT !.out = {l \in @ : l.h # h}], mx, tgt, {h})

\* The factory's create resolved with handle h for the i-th creation in flight.
EngineCreated(P, i, h) ==
  LET e  == P.creating[i]
      P1 == [P EXCEPT !.creating = RemoveAt(@, i)]
  IN  IF e.for # 0
      THEN [P1 EXCEPT !.out = @ \cup {[h |-> h, by |-> e.for]}]
      ELSE EngineGive(P1, h)

\* (variant: the creation that failed keeps its slot and is tried again)
EngineCreateRetried(P, i, mx, tgt) == Result(P, FALSE, FALSE, {})

\* The factory's create rejected for the i-th creation in flight.
EngineCreateFailed(P, i, mx, tgt) ==
  EngineDispense([P EXCEPT !.creating = RemoveAt(@, i)], mx, tgt, {})

\* drain(cb)
EngineDrain(P, cb) ==
  [P EXCEPT !.draining = TRUE,
            !.cbs = @ \cup (IF cb = "none" THEN {} ELSE {cb})]

EngineDrained(P) ==
  P.draining /\ P.out = {} /\ P.creating = <<>> /\ P.queue = <<>>

\* destroyAllNow()
EngineDestroyAllNow(P) ==
  Result([P EXCEPT !.idle = <<>>], FALSE, FALSE, SeqRange(P.idle))

\* The idle timeout of the i-th idle handle elapsed.
EngineEvict(P, i) ==
  Result([P EXCEPT !.idle = RemoveAt(@, i)], FALSE, FALSE, {P.idle[i]})

\* createPool(factory, {max, min, idleTimeoutMillis}): min creations are begun.
EngineCreatePool(mn, targets) ==
  [EmptyPool EXCEPT !.creating = [i \in 1..mn |-> [for |-> 0, target |-> targets[i]]]]

\* --------------------------------------------- manager and router (code)
\* config.pool.max and config.pool.min as initPools hands them to createPool
\* (variant: one more than config.pool.max)
PoolMaxPlusOne == config.max + 1

PoolMax == config.max

\* (variant: a minimum of no connection)
PoolMinNone == config.min - config.min

PoolMin == config.min

\* (variant: every connection counts as valid)
ValidateSkipped(answer) == answer \/ ~answer

\* _validate(connection): answer is the dialect's validate, where it has one
Validate(answer) == IF ~config.validate THEN TRUE ELSE answer

\* semver.valid(version) ? version : this.defaultVersion
SemverValid(version) == version # "bad"

RecordedVersion(version) == IF SemverValid(version) THEN version ELSE DefaultVersion

\* (variant: the promise of a detection under way is not looked at)
SharedPromiseIgnored == versionPromise - versionPromise

\* getConnection: the promise a call shares while a detection is under way
SharedPromise == versionPromise

\* (variant: the catch handler leaves this.versionPromise as it is)
CatchPromiseKept == versionPromise

\* the catch handler of the detection: this.versionPromise = null
CatchPromise == 0

\* (variant: close() leaves this.getConnection as it is)
GetConnectionKept == closed

\* close(): this.getConnection is replaced by the function that rejects
ReplacedGetConnection == TRUE

\* (variant: options.priority is not handed on)
AcquirePriorityDropped(priority) == priority - priority

\* getConnection: the priority this.pool.acquire is given
AcquirePriority(priority) == priority

\* (variant: the connection is destroyed instead of released)
ManagerDestroy(P, connection, mx, tgt) == EngineDestroy(P, connection, mx, tgt)

\* (variant: the connection is put back without asking the pool whether it lent it)
ManagerPutBack(P, connection, mx, tgt) ==
  Result(EngineGive([P EXCEPT !.out = {l \in @ : l.h # connection}], connection),
         FALSE, FALSE, {})

\* releaseConnection(connection): this.pool.release(connection), on the pool
\* the release reaches
ManagerRelease(P, connection, mx, tgt) == EngineRelease(P, connection)

\* (variant: useMaster is not looked at)
RouterAcquireByType(queryType, useMaster) ==
  IF queryType = "SELECT" THEN "read" ELSE "write"

\* the router's acquire: the sub pool it delegates to
RouterAcquire(queryType, useMaster) ==
  LET um == IF useMaster = "undefined" THEN FALSE ELSE useMaster = "true"
  IN  IF queryType = "SELECT" /\ ~um THEN "read" ELSE "write"

\* (variant: every release goes to the write pool)
RouterReleaseToWrite(client) == "write"

\* the router's release: the sub pool it delegates to
RouterRelease(client) == IF client.tag = "read" THEN "read" ELSE "write"

\* this.pool.acquire(options.priority, options.type, options.useMaster)
AcquirePool(queryType, useMaster) ==
  IF config.replication THEN RouterAcquire(queryType, useMaster) ELSE "single"

\* this.pool.release(connection)
ReleasePool(client) == IF config.replication THEN RouterRelease(client) ELSE "single"

\* the router's destroy: this.pool[connection.queryType], the sub pool whose destroy
\* it calls; "none" when the property lookup gives undefined and the call throws
RouterDestroy(connection) ==
  IF connection.tag \in {"read", "write"} THEN connection.tag ELSE "none"

\* this.pool.destroy(connection)
DestroyPool(connection) ==
  IF config.replication THEN RouterDestroy(connection) ELSE "single"

\* (variant: the first read target, whatever the counter)
CreateTargetFirst(p, n) == n - n

\* the factory's create of pool p: the read target it connects to
CreateTarget(p, n) == IF p = "read" THEN n % config.nReads ELSE 0

\* the factory's create of pool p: the queryType it sets on the connection
CreateTag(p) == IF p = "read" THEN "read" ELSE IF p = "write" THEN "write" ELSE "none"

\* (variant: the router drains its read pool first)
DrainPoolReadFirst == IF config.replication THEN "read" ELSE "single"

\* the callback the pool's drain is given by onProcessExit, as the pool's drain
\* takes it: the router's drain has no parameter and hands its write pool the
\* drain of the read pool
DrainPool == IF config.replication THEN "write" ELSE "single"

DrainCallback == IF config.replication THEN "readDrain" ELSE "destroyAllNow"

\* ------------------------------------------------------------ helpers
\* The callers that call getConnection
ActiveCallers == IF config.replication THEN 1..NReplCallers ELSE Callers

Targets == 0..(NReadTargets - 1)

Zero == [t \in Targets |-> 0]

\* The callers a step of pool p hands a handle to
Grant(calls, Pold, Pnew) ==
  [c \in Callers |->
     IF \E l \in Pnew.out \ Pold.out : l.by = c
     THEN [calls[c] EXCEPT !.st = "holding",
                           !.h = (CHOOSE l \in Pnew.out \ Pold.out : l.by = c).h]
     ELSE calls[c]]

\* The effects of an engine operation r on pool p, other than on the callers
Apply(p, r) ==
  /\ pool' = [pool EXCEPT ![p] = r.P]
  /\ reads' = IF p = "read" /\ r.started THEN reads + 1 ELSE reads
  /\ reads' <= MaxReads
  /\ tried' = IF p = "read" /\ r.started
              THEN [tried EXCEPT ![CreateTarget(p, reads)] = @ + 1] ELSE tried
  /\ open' = open \ {h.id : h \in r.gone}

Quiet(P) == P.idle = <<>> /\ P.out = {} /\ P.creating = <<>> /\ P.queue = <<>> /\ P.cbs = {}

\* sequelize.config as the constructor gets it: pooling is FALSE for pool: false
Configs ==
  [replication : BOOLEAN, nReads : 1..NReadTargets, max : 1..MaxPoolMax,
   min : 0..MaxPoolMin, validate : BOOLEAN, pooling : BOOLEAN]

\* (variant: the listener is registered before config.pool is looked at)
HookRegisteredFirst(pooling) == pooling \/ ~pooling

\* the constructor: process.on('exit', ...) is reached unless pool: false made it
\* throw
HookRegistered(pooling) == pooling

\* onProcessExit(): the pool, if there is one, is asked to drain
OnProcessExit ==
  IF inited THEN [pool EXCEPT ![DrainPool] = EngineDrain(@, DrainCallback)] ELSE pool

\* A detection: how far its promise chain is, the private connection it opened,
\* and whether it handed that connection to this._disconnect
NoDetection == [st |-> "none", conn |-> 0, disconnected |-> FALSE]

\* ------------------------------------------------------------ actions
\* initPools()
InitPools ==
  /\ ~inited \/ ( /\ \A p \in PoolNames : Quiet(pool[p])
                  /\ \A c \in Callers : call[c].st \in {"idle", "then"} )
  /\ inited' = TRUE
  /\ pool' = [p \in PoolNames |->
                IF p \in Pools
                THEN EngineCreatePool(PoolMin, [i \in 1..PoolMin |-> CreateTarget(p, i - 1)])
                ELSE EmptyPool]
  /\ reads' = IF config.replication THEN PoolMin ELSE 0
  /\ tried' = [t \in Targets |->
                 IF config.replication
                 THEN Cardinality({i \in 1..PoolMin : CreateTarget("read", i - 1) = t})
                 ELSE 0]
  /\ made' = Zero
  /\ UNCHANGED <<config, hook, closed, dbVersion, versionPromise, det, call, open>>
  /\ event' = NoEvent

\* getConnection(options), up to the promise it chains the acquire on.  The
\* options are read by the chained callback alone (ThenAcquire).  Callers are
\* interchangeable: the call is made by the first caller that has none under way.
GetConnection(c) ==
  /\ c \in ActiveCallers
  /\ call[c].st = "idle"
  /\ \A d \in 1..(c - 1) : call[d].st # "idle"
  /\ IF closed
     THEN /\ event' = [NoEvent EXCEPT !.op = "getConnection", !.err = "closed"]
          /\ UNCHANGED <<call, versionPromise, det>>
     ELSE /\ IF dbVersion = VersionUnknown
             THEN IF SharedPromise # 0
                  THEN /\ call' = [call EXCEPT ![c] =
                             [st |-> "then", await |-> SharedPromise, h |-> NoHandle]]
                       /\ UNCHANGED <<versionPromise, det>>
                  ELSE /\ \E k \in 1..MaxDetect :
                            /\ det[k].st = "none"
                            /\ \A j \in 1..(k - 1) : det[j].st # "none"
                            /\ det' = [det EXCEPT ![k].st = "connecting"]
                            /\ versionPromise' = k
                            /\ call' = [call EXCEPT ![c] =
                                  [st |-> "then", await |-> k, h |-> NoHandle]]
             ELSE /\ call' = [call EXCEPT ![c] =
                        [st |-> "then", await |-> 0, h |-> NoHandle]]
                  /\ UNCHANGED <<versionPromise, det>>
          /\ event' = NoEvent
  /\ UNCHANGED <<config, hook, closed, inited, pool, reads, dbVersion, open, made,
                 tried>>

\* --- version detection: the promise chain of getConnection
\* this._connect(...) of the detection resolved: the version query is issued
DetectConnected(k) ==
  /\ det[k].st = "connecting"
  /\ det' = [det EXCEPT ![k].st = "querying", ![k].conn = FreshId]
  /\ open' = open \cup {FreshId}
  /\ UNCHANGED <<config, hook, closed, inited, pool, reads, dbVersion, versionPromise,
                 call, made, tried>>
  /\ event' = NoEvent

\* sequelize.databaseVersion(_options) resolved with a version
DetectAnswered(k, version) ==
  /\ det[k].st = "querying"
  /\ dbVersion' = RecordedVersion(version)
  /\ versionPromise' = 0
  /\ det' = [det EXCEPT ![k].st = "disconnecting", ![k].disconnected = TRUE]
  /\ UNCHANGED <<config, hook, closed, inited, pool, reads, call, open, made, tried>>
  /\ event' = NoEvent

\* this._disconnect(connection) of the detection resolved
DetectDisconnected(k) ==
  /\ det[k].st = "disconnecting"
  /\ det' = [det EXCEPT ![k].st = "resolved"]
  /\ open' = open \ {det[k].conn}
  /\ UNCHANGED <<config, hook, closed, inited, pool, reads, dbVersion, versionPromise,
                 call, made, tried>>
  /\ event' = NoEvent

\* a step of the chain rejected: the catch handler
DetectFailed(k) ==
  /\ det[k].st \in {"connecting", "querying", "disconnecting"}
  /\ versionPromise' = CatchPromise
  /\ det' = [det EXCEPT ![k].st = "rejected"]
  /\ UNCHANGED <<config, hook, closed, inited, pool, reads, dbVersion, call, open,
                 made, tried>>
  /\ event' = NoEvent

\* The promise caller c chained its acquire on
Awaited(c) == IF call[c].await = 0 THEN "resolved" ELSE det[call[c].await].st

\* promise.then(() => this.pool.acquire(options.priority, options.type,
\* options.useMaster)): the callback runs
ThenAcquire(c, pri, type, um) ==
  /\ call[c].st = "then"
  /\ Awaited(c) = "resolved"
  /\ IF ~inited
     THEN /\ call' = [call EXCEPT ![c] = IdleCall]
          /\ event' = NoEvent
          /\ UNCHANGED <<pool, reads, tried, open>>
     ELSE \E answers \in [1..Len(pool[AcquirePool(type, um)].idle) -> BOOLEAN] :
          LET p == AcquirePool(type, um)
              r == EngineAcquire(pool[p], c, AcquirePriority(pri), pri,
                                 [i \in 1..Len(pool[p].idle) |-> Validate(answers[i])],
                                 PoolMax, CreateTarget(p, reads))
          IN  /\ Apply(p, r)
              /\ event' = [NoEvent EXCEPT
                            !.op = "acquire", !.c = c, !.pool = p,
                            !.type = IF config.replication THEN type ELSE "none",
                            !.um = IF config.replication THEN um ELSE "none",
                            !.err = IF r.err THEN "draining" ELSE "none",
                            !.verdict =
                               IF ~config.validate
                                  \/ ~\E l \in r.P.out \ pool[p].out : l.by = c
                               THEN "none"
                               ELSE IF answers[Cardinality(r.gone) + 1]
                                    THEN "pass" ELSE "fail",
                            !.gone = Cardinality(r.gone)]
              /\ call' = IF r.err THEN [call EXCEPT ![c] = IdleCall]
                         ELSE Grant([call EXCEPT ![c].st = "waiting"], pool[p], r.P)
  /\ UNCHANGED <<config, hook, closed, inited, dbVersion, versionPromise, det, made>>

\* the promise getConnection chained on rejected
ThenReject(c) ==
  /\ call[c].st = "then"
  /\ Awaited(c) = "rejected"
  /\ call' = [call EXCEPT ![c] = IdleCall]
  /\ UNCHANGED <<config, hook, closed, inited, pool, reads, dbVersion, versionPromise,
                 det, open, made, tried>>
  /\ event' = NoEvent

\* a pool's create resolved: this._connect(...) and the queryType it is given
CreateOk(p, i) ==
  /\ i \in 1..Len(pool[p].creating)
  /\ LET h == [id |-> FreshId, tag |-> CreateTag(p),
               target |-> pool[p].creating[i].target, origin |-> p]
         P == EngineCreated(pool[p], i, h)
     IN  /\ pool' = [pool EXCEPT ![p] = P]
         /\ open' = open \cup {h.id}
         /\ call' = Grant(call, pool[p], P)
         /\ made' = IF p = "read" THEN [made EXCEPT ![h.target] = @ + 1] ELSE made
  /\ UNCHANGED <<config, hook, closed, inited, reads, dbVersion, versionPromise, det,
                 tried>>
  /\ event' = NoEvent

\* a pool's create rejected
CreateFail(p, i) ==
  /\ i \in 1..Len(pool[p].creating)
  /\ LET c == pool[p].creating[i].for
         r == EngineCreateFailed(pool[p], i, PoolMax, CreateTarget(p, reads))
     IN  /\ Apply(p, r)
         /\ call' = [d \in Callers |-> IF d = c THEN IdleCall ELSE call[d]]
         /\ event' = [NoEvent EXCEPT !.op = "createError", !.c = c, !.pool = p]
  /\ UNCHANGED <<config, hook, closed, inited, dbVersion, versionPromise, det, made>>

\* releaseConnection(connection)
Release(client, calls) ==
  LET p == ReleasePool(client)
      r == ManagerRelease(pool[p], client, PoolMax, CreateTarget(p, reads))
  IN  /\ inited
      /\ Apply(p, r)
      /\ event' = [NoEvent EXCEPT !.op = "release", !.pool = p, !.h = client,
                                  !.err = IF r.err THEN "notLoaned" ELSE "none"]
      /\ call' = Grant(calls, pool[p], r.P)
      /\ UNCHANGED <<config, hook, closed, inited, dbVersion, versionPromise, det,
                     made>>

\* a caller releases the connection it holds
ReleaseConnection(c) ==
  /\ call[c].st = "holding"
  /\ Release(call[c].h, [call EXCEPT ![c] = IdleCall])

\* a connection that no pool of the manager issued is released
ReleaseForeign ==
  Release(NoHandle, call)

\* this.pool.destroy(connection), as the query layer calls it on the manager's pool
Destroy(connection, calls) ==
  LET p == DestroyPool(connection)
  IN  /\ inited
      /\ IF p = "none"
         THEN /\ event' = [NoEvent EXCEPT !.op = "destroy", !.h = connection,
                                          !.err = "typeError"]
              /\ UNCHANGED <<pool, reads, tried, open>>
         ELSE LET r == EngineDestroy(pool[p], connection, PoolMax, CreateTarget(p, reads))
              IN  /\ Apply(p, r)
                  /\ event' = [NoEvent EXCEPT
                                !.op = "destroy", !.pool = p, !.h = connection,
                                !.err = IF r.err THEN "notLoaned" ELSE "none"]
      /\ call' = calls
      /\ UNCHANGED <<config, hook, closed, inited, dbVersion, versionPromise, det,
                     made>>

\* a caller has the connection it holds destroyed
DestroyConnection(c) ==
  /\ call[c].st = "holding"
  /\ Destroy(call[c].h, [call EXCEPT ![c] = IdleCall])

\* a connection that no pool of the manager issued is destroyed
DestroyForeign ==
  Destroy(NoHandle, call)

\* close(): onProcessExit(), the listener removed, getConnection replaced
Close ==
  /\ pool' = OnProcessExit
  /\ hook' = FALSE
  /\ closed' = ReplacedGetConnection
  /\ UNCHANGED <<config, inited, reads, dbVersion, versionPromise, det, call, open,
                 made, tried>>
  /\ event' = NoEvent

\* a draining pool has drained: the callback its drain was given runs
DrainDone(p, cb) ==
  /\ cb \in pool[p].cbs
  /\ EngineDrained(pool[p])
  /\ LET P == [pool EXCEPT ![p].cbs = @ \ {cb}]
     IN  IF cb = "destroyAllNow"
         THEN LET r == EngineDestroyAllNow(P["single"])
              IN  /\ pool' = [P EXCEPT !["single"] = r.P]
                  /\ open' = open \ {h.id : h \in r.gone}
         ELSE /\ pool' = [P EXCEPT !["read"] = EngineDrain(@, "none")]
              /\ UNCHANGED open
  /\ UNCHANGED <<config, hook, closed, inited, reads, dbVersion, versionPromise, det,
                 call, made, tried>>
  /\ event' = NoEvent

\* idleTimeoutMillis: an idle connection's timeout elapsed
Evict(p, i) ==
  /\ i \in 1..Len(pool[p].idle)
  /\ Count(pool[p]) > PoolMin
  /\ Apply(p, EngineEvict(pool[p], i))
  /\ UNCHANGED <<config, hook, closed, inited, dbVersion, versionPromise, det, call,
                 made>>
  /\ event' = [NoEvent EXCEPT !.op = "evict", !.pool = p, !.h = pool[p].idle[i]]

\* The steps of the manager and its pools
PoolNext ==
  \/ InitPools
  \/ \E c \in Callers : GetConnection(c)
  \/ \E c \in Callers, pri \in Priorities, type \in QueryTypes, um \in UseMasterValues :
       ThenAcquire(c, pri, type, um)
  \/ \E p \in PoolNames, i \in 1..MaxPoolMax : CreateOk(p, i)
  \/ \E p \in PoolNames, i \in 1..MaxPoolMax : CreateFail(p, i)
  \/ \E c \in Callers : ReleaseConnection(c)
  \/ ReleaseForeign
  \/ Close
  \/ \E p \in PoolNames, cb \in {"destroyAllNow", "readDrain"} : DrainDone(p, cb)
  \/ \E p \in PoolNames, i \in 1..MaxPoolMax : Evict(p, i)

\* The steps of a version detection
DetectNext ==
  \/ \E k \in 1..MaxDetect : DetectConnected(k)
  \/ \E k \in 1..MaxDetect, version \in VersionReplies : DetectAnswered(k, version)
  \/ \E k \in 1..MaxDetect : DetectDisconnected(k)
  \/ \E k \in 1..MaxDetect : DetectFailed(k)
  \/ \E c \in Callers : ThenReject(c)

Next == PoolNext \/ DetectNext

SingleConfigs ==
  {c \in Configs : c.pooling /\ ~c.replication /\ c.nReads = 1 /\ c.min <= c.max}

ReplConfigs == {c \in Configs : c.pooling /\ c.replication /\ c.min <= c.max}

InitWith(configs, versions) ==
  /\ config \in configs
  /\ hook = HookRegistered(config.pooling)
  /\ closed = FALSE
  /\ inited = FALSE
  /\ pool = [p \in PoolNames |-> EmptyPool]
  /\ reads = 0
  /\ dbVersion \in versions
  /\ versionPromise = 0
  /\ det = [k \in 1..MaxDetect |-> NoDetection]
  /\ call = [c \in Callers |-> IdleCall]
  /\ event = NoEvent
  /\ open = {}
  /\ made = Zero
  /\ tried = Zero

\* A single pool.  options.databaseVersion is 0 (the version is detected) with the
\* pools of at most MaxDetectPoolMax connections and a minimum of at most
\* MaxDetectPoolMin, and given with every pool.
Init ==
  \/ InitWith({c \in SingleConfigs : c.max <= MaxDetectPoolMax /\ c.min <= MaxDetectPoolMin},
              {VersionUnknown})
  \/ InitWith(SingleConfigs, {"v1"})

Spec == Init /\ [][Next]_vars

\* Replication, with sub pools of at most MaxReplPoolMax connections and with
\* options.databaseVersion given: no detection is ever started.
InitRepl == InitWith({c \in ReplConfigs : c.max <= MaxReplPoolMax}, {"v1"})

SpecRepl == InitRepl /\ [][PoolNext]_vars

\* Replication, where a pool that has drained does call the callback its drain
\* was given: the callback is a pending job of the event loop.
SpecReplFair ==
  SpecRepl /\ WF_vars(\E p \in PoolNames, cb \in {"destroyAllNow", "readDrain"} : DrainDone(p, cb))

\* A single pool with options.databaseVersion given, where what is pending does
\* happen: a then-callback runs, a create settles, a drained pool calls its
\* callback, an idle timeout that stays armed fires.  What the callers do
\* (getConnection, releaseConnection, close) is left to them.
InitFair == InitWith({c \in SingleConfigs : ~c.validate}, {"v1"})

SpecFair ==
  /\ InitFair /\ [][PoolNext]_vars
  /\ \A c \in Callers :
       WF_vars(\E pri \in Priorities, type \in QueryTypes, um \in UseMasterValues :
                 ThenAcquire(c, pri, type, um))
  /\ \A i \in 1..MaxPoolMax :
       WF_vars(\E p \in PoolNames : CreateOk(p, i) \/ CreateFail(p, i))
  /\ WF_vars(\E p \in PoolNames, cb \in {"destroyAllNow", "readDrain"} : DrainDone(p, cb))
  /\ \A i \in 1..MaxPoolMax :
       WF_vars(\E p \in PoolNames : Evict(p, i))

\* The process emits 'exit': the listeners registered for it are called, and
\* nothing runs after them.
ProcessExit ==
  /\ pool' = IF hook THEN OnProcessExit ELSE pool
  /\ event' = [NoEvent EXCEPT !.op = "exit"]
  /\ UNCHANGED <<config, hook, closed, inited, reads, dbVersion, versionPromise, det,
                 call, open, made, tried>>

\* A single pool, or no manager at all because the constructor threw on
\* pool: false; the process may end at any moment.
InitExit ==
  InitWith({c \in Configs : /\ ~c.replication /\ c.nReads = 1 /\ c.min <= c.max
                            /\ ~c.validate}, {"v1"})

\* There is a manager and the process has not ended
Running == config.pooling /\ event.op # "exit"

ExitNext ==
  \/ Running /\ InitPools
  \/ \E c \in Callers : Running /\ GetConnection(c)
  \/ \E c \in Callers, pri \in Priorities, type \in QueryTypes, um \in UseMasterValues :
       Running /\ ThenAcquire(c, pri, type, um)
  \/ \E p \in PoolNames, i \in 1..MaxPoolMax : Running /\ CreateOk(p, i)
  \/ \E p \in PoolNames, i \in 1..MaxPoolMax : Running /\ CreateFail(p, i)
  \/ \E c \in Callers : Running /\ ReleaseConnection(c)
  \/ Running /\ ReleaseForeign
  \/ Running /\ Close
  \/ \E p \in PoolNames, cb \in {"destroyAllNow", "readDrain"} :
       Running /\ DrainDone(p, cb)
  \/ \E p \in PoolNames, i \in 1..MaxPoolMax : Running /\ Evict(p, i)
  \/ Running /\ ProcessExit

SpecExit == InitExit /\ [][ExitNext]_vars

\* The steps of the query layer that destroys connections
DestroyNext ==
  \/ \E c \in Callers : DestroyConnection(c)
  \/ DestroyForeign

\* Replication, with connections released or destroyed
SpecDestroy == InitRepl /\ [][PoolNext \/ DestroyNext]_vars

\* ------------------------------------------------------------- claims
InFlight == {k \in 1..MaxDetect : det[k].st \in {"connecting", "querying", "disconnecting"}}

Started == {k \in 1..MaxDetect : det[k].st # "none"}

\* C1: in a single pool configured with max M, the idle handles, the checked-out
\* handles and the creations in flight are together at most M, and none of the
\* three counts is negative.
C1_PoolWithinMax ==
  LET P == pool["single"]
  IN  /\ Len(P.idle) >= 0 /\ Cardinality(P.out) >= 0 /\ Len(P.creating) >= 0
      /\ Len(P.idle) + Cardinality(P.out) + Len(P.creating) <= config.max

\* A pool of max 2 is full, with a handle checked out, a creation in flight and a
\* caller queued.
C1_Saturated ==
  LET P == pool["single"]
  IN  /\ config.max = 2
      /\ Cardinality(P.out) = 1 /\ Len(P.creating) = 1 /\ P.queue # <<>>

\* C2: the calls of getConnection made while the version is unknown and a detection
\* is under way share that detection: at most one detection is under way at any
\* time; as long as no detection has failed only one was started, so one private
\* connection was opened and one version query issued; every caller awaits that
\* one; the callers it lets proceed find the version recorded, and a recorded
\* version never changes.
C2_OneDetection ==
  [][ /\ Cardinality(InFlight') <= 1
      /\ (\A k \in 1..MaxDetect : det'[k].st # "rejected") =>
           /\ Cardinality(Started') <= 1
           /\ \A c \in Callers :
                call'[c].st = "then" /\ call'[c].await # 0 => call'[c].await \in Started'
      /\ \A c \in Callers :
           call'[c].st = "then" /\ call'[c].await # 0
             /\ det'[call'[c].await].st = "resolved"
           => dbVersion' # VersionUnknown
      /\ dbVersion # VersionUnknown => dbVersion' = dbVersion ]_vars

\* Every caller called getConnection before the one detection resolved, and it has.
C2_AllShared ==
  /\ det[1].st = "resolved"
  /\ Cardinality(Started) = 1
  /\ \A c \in Callers : call[c].st = "then" /\ call[c].await = 1

\* C3: once close() has been called (the exit listener is removed), the manager
\* stays closed: a call of getConnection is rejected with the manager-closed error
\* and leaves the caller without a call under way and the pools untouched,
\* whatever initPools, releaseConnection, getConnection and close do afterwards.
C3_ClosedIsTerminal ==
  [][ ~hook =>
        /\ ~hook'
        /\ \A c \in Callers : call[c].st = "idle" => call'[c].st = "idle"
        /\ event'.op = "getConnection" =>
             event'.err = "closed" /\ pool' = pool /\ call' = call ]_vars

\* getConnection is rejected by a closed manager whose pool initPools made anew
\* after the close.
C3_RejectedAfterReinit ==
  /\ ~hook /\ closed /\ inited
  /\ ~pool["single"].draining
  /\ event.op = "getConnection" /\ event.err = "closed"

\* C4: after close() on a manager whose pools initPools made, once every handle
\* that was checked out has been released, no physical connection the manager
\* opened stays open.  Stated on the states where the shutdown has nothing left to
\* do: the exit listener is removed, every pool drains and has drained, no drain
\* callback is pending, no caller has a call under way, and no idle handle is
\* above the configured minimum (the idle timeout closes none).
C4_NothingLeftOpen ==
  ( /\ ~hook /\ inited
    /\ \A p \in Pools :
         EngineDrained(pool[p]) /\ pool[p].cbs = {} /\ Len(pool[p].idle) <= PoolMin
    /\ \A c \in Callers : call[c].st = "idle" )
  => open = {}

\* C5: a release that the pool accepts while callers are queued gives the released
\* handle to the caller at the head of the queue, and begins no creation for it.
\* An acquire that finds no idle handle begins a creation while the pool is below
\* max, and waits in the queue once it is full: with max 2 and min 0 the first two
\* of three acquisitions are served by creation and the third waits.
C5_ReleaseServesHead ==
  [][ LET P == pool["single"]
          Q == pool'["single"]
      IN  /\ (event'.op = "release" /\ event'.err = "none" /\ P.queue # <<>>) =>
                /\ [h |-> event'.h, by |-> Head(P.queue).c] \in Q.out
                /\ call'[Head(P.queue).c].st = "holding"
                /\ call'[Head(P.queue).c].h = event'.h
                /\ Q.queue = Tail(P.queue)
                /\ Q.creating = P.creating
                /\ Q.idle = P.idle
                /\ open' = open
          /\ (event'.op = "acquire" /\ event'.err = "none" /\ P.idle = <<>>) =>
                IF Count(P) < config.max
                THEN /\ Q.creating = Append(P.creating, [for |-> event'.c, target |-> 0])
                     /\ Q.queue = P.queue
                ELSE /\ Q.creating = P.creating
                     /\ Len(Q.queue) = Len(P.queue) + 1
                     /\ call'[event'.c].st = "waiting" ]_vars

\* With max 2 and min 0 the third caller, who waited, holds the handle that the
\* latest step released; the two handles of the pool are checked out.
C5_ThirdServedByRelease ==
  /\ config.max = 2 /\ config.min = 0
  /\ event.op = "release" /\ event.err = "none"
  /\ call[3].st = "holding" /\ call[3].h = event.h
  /\ Cardinality(pool["single"].out) = 2
  /\ pool["single"].creating = <<>>

\* C6: the queue of a pool is kept in the order of the priorities the callers of
\* getConnection supplied (lower value first).  A caller joins it behind every
\* waiter of a lower or the same priority and ahead of every waiter of a higher
\* one, the others keeping their order; and the only waiter that ever leaves the
\* queue is the one at its head.
C6_PriorityThenArrival ==
  [][ LET q  == pool["single"].queue
          q2 == pool'["single"].queue
      IN  /\ \A i \in 1..Len(q2), j \in 1..Len(q2) : i < j => q2[i].opt <= q2[j].opt
          /\ \/ q2 = q
             \/ q # <<>> /\ q2 = Tail(q)
             \/ /\ event'.op = "acquire"
                /\ \E i \in 1..Len(q2) :
                     /\ q2[i].c = event'.c
                     /\ SubSeq(q2, 1, i - 1) \o SubSeq(q2, i + 1, Len(q2)) = q
                     /\ \A j \in 1..(i - 1) : q2[j].opt <= q2[i].opt
                     /\ \A j \in (i + 1)..Len(q2) : q2[j].opt > q2[i].opt ]_vars

\* The caller that just called waits ahead of a caller that waited before it,
\* because it supplied a lower priority value.
C6_Overtaken ==
  LET q == pool["single"].queue
  IN  /\ event.op = "acquire"
      /\ Len(q) = 2
      /\ q[1].c = event.c
      /\ q[1].opt < q[2].opt

\* C7: with replication, this.pool.acquire reaches the read pool exactly when the
\* query type is SELECT and useMaster is false or not given, and the write pool for
\* every other combination; the caller is then served, or waits, in that pool and
\* is unknown to the other one.
C7_RouterAcquire ==
  event.op = "acquire" =>
    LET known(P) == \/ \E l \in P.out : l.by = event.c
                    \/ \E i \in 1..Len(P.creating) : P.creating[i].for = event.c
                    \/ \E i \in 1..Len(P.queue) : P.queue[i].c = event.c
        other == IF event.pool = "read" THEN "write" ELSE "read"
    IN  /\ event.pool \in {"read", "write"}
        /\ event.pool = "read" <=>
             (event.type = "SELECT" /\ event.um \in {"undefined", "false"})
        /\ ~known(pool[other])
        /\ event.err = "none" => known(pool[event.pool])

\* A SELECT with useMaster set was taken to the write pool.
C7_SelectOnMaster ==
  /\ event.op = "acquire" /\ event.type = "SELECT" /\ event.um = "true"
  /\ event.pool = "write" /\ event.err = "none"
  /\ \E l \in pool["write"].out : l.by = event.c

\* C8: with replication, every handle a sub pool holds (idle or checked out) and
\* every handle a caller holds was created by that sub pool and carries its tag;
\* the release of such a handle reaches the sub pool that created it, which
\* accepts it.
C8_TaggedByOrigin ==
  /\ \A p \in {"read", "write"} :
       /\ \A i \in 1..Len(pool[p].idle) :
            pool[p].idle[i].origin = p /\ pool[p].idle[i].tag = p
       /\ \A l \in pool[p].out : l.h.origin = p /\ l.h.tag = p
  /\ \A c \in Callers :
       call[c].st = "holding" =>
         /\ call[c].h.tag \in {"read", "write"}
         /\ call[c].h.origin = call[c].h.tag
         /\ [h |-> call[c].h, by |-> c] \in pool[call[c].h.origin].out
  /\ (event.op = "release" /\ event.h.tag \in {"read", "write"}) =>
       /\ event.pool = event.h.origin
       /\ event.err = "none"
       /\ \/ event.h \in SeqRange(pool[event.pool].idle)
          \/ \E l \in pool[event.pool].out : l.h = event.h

\* A handle of the read pool was released and is idle in the read pool again.
C8_ReadBackInRead ==
  /\ event.op = "release" /\ event.h.tag = "read" /\ event.err = "none"
  /\ event.h \in SeqRange(pool["read"].idle)

\* C9 as stated: the connections created for any two read targets differ by at
\* most one at every moment.
C9_EvenCreation ==
  \A t1 \in 0..(config.nReads - 1), t2 \in 0..(config.nReads - 1) :
    made[t1] - made[t2] <= 1

\* C9, amended: the round-robin counter advances once per call of the read pool's
\* create, whether the connection attempt then succeeds or fails, and at no other
\* step: not on an acquisition served by an idle handle, not on a release.  The
\* k-th call (k = 0, 1, ...) connects to read target k mod n, so the calls made for
\* any two read targets differ by at most one, and the connections opened for a
\* target (and the creations in flight for it) are at most the calls made for it.
\* A handle keeps the target it was created for.
C9_RoundRobinPerAttempt ==
  [][ LET n == config.nReads
          R == pool'["read"]
          inFlight(t) == Cardinality({i \in 1..Len(R.creating) : R.creating[i].target = t})
      IN  /\ \A t \in Targets :
                /\ tried'[t] = Cardinality({k \in 0..(reads' - 1) : k % n = t})
                /\ made'[t] + inFlight(t) <= tried'[t]
          /\ \A t1 \in 0..(n - 1), t2 \in 0..(n - 1) : tried'[t1] - tried'[t2] <= 1
          /\ IF InitPools
             THEN reads' = PoolMin
             ELSE \/ reads' = reads /\ Len(R.creating) <= Len(pool["read"].creating)
                  \/ /\ reads' = reads + 1
                     /\ Len(R.creating) >= Len(pool["read"].creating)
                     /\ R.creating # <<>>
                     /\ R.creating[Len(R.creating)].target = reads % n
          /\ event'.op = "release" => reads' = reads
          /\ \A c \in Callers :
                (event'.op = "acquire" /\ event'.c = c /\ event'.pool = "read"
                   /\ call'[c].st = "holding") =>
                  /\ call'[c].h \in SeqRange(pool["read"].idle)
                  /\ reads' = reads ]_vars

\* Two read connections were created, one for each of two read targets, and the
\* latest acquisition was served by an idle handle.
C9_ReusedIdle ==
  /\ config.nReads = 2
  /\ reads = 2 /\ made[0] = 1 /\ made[1] = 1
  /\ event.op = "acquire" /\ event.pool = "read"
  /\ call[event.c].st = "holding"

C11_DestroyRoutedAsRelease ==
  event.op = "destroy" => event.pool = ReleasePool(event.h)

\* C12: with replication, the read pool begins to drain only at a step at which
\* the write pool, asked to drain by the router, has drained; and once the write
\* pool has drained with the router's callback pending, the read pool does begin
\* to drain.
C12_WriteThenRead ==
  /\ [][ (~pool["read"].draining /\ pool'["read"].draining) =>
            /\ EngineDrained(pool["write"])
            /\ "readDrain" \in pool["write"].cbs ]_vars
  /\ (EngineDrained(pool["write"]) /\ "readDrain" \in pool["write"].cbs)
       ~> pool["read"].draining

\* The write pool has drained and the read pool drains, a read handle still being
\* checked out.
C12_ReadDrainsAfterWrite ==
  /\ EngineDrained(pool["write"])
  /\ pool["read"].draining
  /\ pool["read"].out # {}

C14_CreationFailure ==
  [][ event'.op = "createError" =>
        LET P == pool[event'.pool]
            Q == pool'[event'.pool]
            c == event'.c
        IN  /\ c # 0 => call[c].st = "waiting" /\ call'[c] = IdleCall
            /\ \A d \in Callers \ {c} : call'[d] = call[d]
            /\ \A i \in 1..Len(Q.creating) : c # 0 => Q.creating[i].for # c
            /\ Q.idle = P.idle /\ Q.out = P.out
            /\ IF P.queue # <<>> /\ ~P.draining
               THEN /\ Count(Q) = Count(P)
                    /\ Q.queue = Tail(P.queue)
                    /\ Q.creating[Len(Q.creating)].for = Head(P.queue).c
               ELSE /\ Count(Q) = Count(P) - 1
                    /\ Q.queue = P.queue
            /\ Count(Q) <= config.max
            /\ open' = open ]_vars

\* The creation for one caller failed; a caller that waited in the queue still
\* waits, and a creation was begun for it.
C14_SiblingKeepsWaiting ==
  /\ event.op = "createError" /\ event.c # 0
  /\ call[event.c].st = "idle"
  /\ \E d \in Callers :
       /\ call[d].st = "waiting"
       /\ \E i \in 1..Len(pool[event.pool].creating) : pool[event.pool].creating[i].for = d

\* C15: when a detection fails while it opens its private connection or while the
\* version query runs, the shared promise is cleared and the version stays
\* unknown; every caller that awaits the failed detection gets the failure: its
\* call ends without any pool acquire and without a change to a pool; and the
\* next call of getConnection starts a detection of its own.
C15_DetectionFailure ==
  [][ /\ \A k \in 1..MaxDetect :
           (DetectFailed(k) /\ det[k].st \in {"connecting", "querying"}) =>
             /\ versionPromise' = 0
             /\ dbVersion' = VersionUnknown
             /\ det'[k].st = "rejected"
      /\ \A c \in Callers :
           (call[c].st = "then" /\ Awaited(c) = "rejected") =>
             \/ call'[c] = call[c]
             \/ call'[c] = IdleCall /\ event'.op # "acquire" /\ pool' = pool
      /\ \A c \in Callers :
           (GetConnection(c) /\ ~closed /\ dbVersion = VersionUnknown
              /\ versionPromise = 0) =>
             \E k \in 1..MaxDetect :
               /\ det[k].st = "none" /\ det'[k].st = "connecting"
               /\ versionPromise' = k
               /\ call'[c].st = "then" /\ call'[c].await = k ]_vars

\* The first detection failed before a version was recorded; one caller has yet to
\* get the failure, another has called again and started the second detection.
C15_RetriedAfterFailure ==
  /\ det[1].st = "rejected" /\ dbVersion = VersionUnknown
  /\ det[2].st = "connecting" /\ versionPromise = 2
  /\ \E c \in Callers : call[c].st = "then" /\ call[c].await = 1
  /\ \E c \in Callers : call[c].st = "then" /\ call[c].await = 2

\* C20: whenever a detection has finished, by success or by failure, the private
\* connection it opened has been handed to this._disconnect.
C20_PrivateConnectionClosed ==
  \A k \in 1..MaxDetect :
    (det[k].st \in {"resolved", "rejected"} /\ det[k].conn # 0) => det[k].disconnected

\* C16: every call of getConnection ends: a caller whose call is under way (its
\* then-callback pending, or waiting for the pool) eventually holds a handle or
\* has its call ended by a failure.  Stated for the case that favours it most:
\* every caller that holds a handle releases it again, and the manager is never
\* closed, so that no waiter depends on a timeout or on the shutdown.
C16_EveryCallSettles ==
  ([]hook /\ \A c \in Callers : []<>(call[c].st # "holding")) =>
    \A c \in Callers :
      (call[c].st \in {"then", "waiting"}) ~> (call[c].st \in {"holding", "idle"})

\* C17: the idle timeout closes an idle handle and takes it out of the pool only
\* while the pool holds more than config.pool.min connections, and so never
\* leaves it with fewer; and a handle that is idle while the pool holds more than
\* the minimum does not stay so for ever: it is lent again or closed, or the pool
\* comes down to its minimum.
C17_IdleEviction ==
  /\ [][ event'.op = "evict" =>
            /\ Count(pool["single"]) > config.min
            /\ Count(pool'["single"]) = Count(pool["single"]) - 1
            /\ Count(pool'["single"]) >= config.min
            /\ event'.h \in SeqRange(pool["single"].idle)
            /\ event'.h \notin SeqRange(pool'["single"].idle)
            /\ event'.h.id \in open \ open'
            /\ call' = call ]_vars
  /\ \A j \in 1..MaxPoolMax :
       ( /\ \E i \in 1..Len(pool["single"].idle) : pool["single"].idle[i].id = j
         /\ Count(pool["single"]) > config.min )
       ~> ( \/ ~\E i \in 1..Len(pool["single"].idle) : pool["single"].idle[i].id = j
            \/ Count(pool["single"]) <= config.min )

\* With a minimum of one connection, the idle timeout has just closed an idle
\* handle and left the pool with one connection, which is idle too and stays.
C17_EvictedDownToMin ==
  /\ config.min = 1 /\ config.max = 2
  /\ event.op = "evict" /\ event.h.id \notin open
  /\ Len(pool["single"].idle) = 1
  /\ Count(pool["single"]) = 1

\* C18: the exit listener is registered exactly from a construction that did not
\* throw until close(): it is registered iff pooling was not disabled and close()
\* has not replaced getConnection; a constructor that threw on pool: false
\* registered none and made no pool.  When the process exits, the pool is asked
\* to drain iff the listener is registered and initPools has made a pool;
\* otherwise the exit changes nothing.
C18_ExitHook ==
  /\ [](hook <=> (config.pooling /\ ~closed))
  /\ [](~config.pooling => ~inited)
  /\ [][ event'.op = "exit" =>
            pool' = IF hook /\ inited
                    THEN [pool EXCEPT !["single"] = EngineDrain(@, "destroyAllNow")]
                    ELSE pool ]_vars

\* The process exited without a close() while a handle was checked out: the pool
\* was asked to drain.
C18_DrainedAtExit ==
  /\ event.op = "exit" /\ hook /\ ~closed
  /\ pool["single"].draining /\ pool["single"].out # {}

\* C19: once close() has been called, no call of getConnection, whether made
\* before the close and still pending or made after it, has a pool acquire
\* accepted on its behalf: no pool queues it, begins a creation for it or gives
\* it a handle.
C19_NoAcquireAfterClose ==
  ~hook => ~(event.op = "acquire" /\ event.err = "none")

====
